---- MODULE Spec2Model ----
(***************************************************************************)
(* Model of the per-application instance scaler, go/pkg/scaler/simple.go.  *)
(*                                                                         *)
(* Every goroutine of the scaler is a process of the model: the Assign     *)
(* calls, the Idle calls, the notifyRequest goroutines started by Idle and *)
(* by createInstance, the createInstance goroutines started by Assign, and *)
(* the gcLoop.  One action is one critical section (the code between a     *)
(* Lock and its Unlock), one atomic operation, or the unlocked code        *)
(* between two of them, so that every interleaving the Go scheduler can    *)
(* produce is a behaviour of the model.                                    *)
(*                                                                         *)
(* An Instance is named by the request whose Assign started the creation   *)
(* that produced it (createInstance draws a fresh uuid, line 284: the name *)
(* is injective just as the uuid is).  Its slot carries the same name.     *)
(* The waiter channel made by the Assign of request r is named r, and     *)
(* requests are named in the order in which their Assign calls reach the  *)
(* first critical section.                                                 *)
(***************************************************************************)
EXTENDS Integers, Sequences, FiniteSets, TLC

\* Number of Assign calls (requests) issued in a behaviour of Spec; a behaviour
\* of SpecMore issues one more.
MaxReq == 2
\* Number of Idle calls issued in a behaviour.
MaxIdleCalls == 2
\* Last instant of the clock.
MaxTime == 2
\* config.IdleDurationBeforeGC, in clock ticks.
IdleDurationBeforeGC == 1
\* Capacity of a waiter channel: make(chan *model2.Instance, 1).
ChanCap == 1

Reqs == 1..MaxReq
AllReqs == 1..(MaxReq + 1)
Inst == AllReqs
None == 0
\* The slotId "" that Idle passes to deleteSlot when it found no instance.
NoSlot == 0
Slots == Inst \cup {NoSlot}
\* The reasons given to DestroySLot: "bad instance" by Idle, the idle duration
\* by gcLoop.
Reasons == {"bad instance", "gc"}

\* No task: the lock is free.  A task is named by its function, by the
\* request or instance it works for, and, for the notifyRequest goroutines
\* (which are told apart no further), by its position.
NoTask == <<"none", 0, "">>

\* Positions of a notifyRequest goroutine.
NPc == {"lock", "set", "push"}

\* Number of requests whose Assign and Idle calls reach the estimator in a
\* behaviour of SpecEst.
MaxEstReq == 2
\* Number of getCurrentRequestBNum calls in a behaviour of SpecEst.
MaxGets == 1
EstIds == 1..MaxEstReq
\* r.requestDuration holds no entry for the request id: the read gives the zero
\* time.Time.
NoEntry == -1

VARIABLES
    instances,        \* s.instances: the ids registered
    Busy,             \* instance.Busy, per instance
    LastIdleTime,     \* instance.LastIdleTime, per instance
    idleInstance,     \* s.idleInstance: front first
    longPollingList,  \* s.longPollingList: waiter channels, front first
    chan,             \* content of each waiter channel
    creatingNum,      \* s.creatingNum
    apc,              \* position of the Assign call of each request
    reply,            \* InstanceId of the Assignment each Assign returned
    cpc,              \* position of the createInstance started by each request
    notifying,        \* number of notifyRequest goroutines per instance and position
    ticket,           \* per queued waiter, its rank of arrival in the queue
    idleLog,          \* per request, the Idle calls made for its Assignment
    destroyed,        \* number of DestroySLot calls made, per <<slot, reason>>
    gcpc,             \* position of gcLoop
    now,              \* the clock
    badIdle,          \* the Idle calls made with no Assignment or an unknown id
    nilStart,         \* position of the goroutine of Idle, lines 174-176, when
                      \* the Assignment is nil
    requestDuration,  \* r.requestDuration: per request id, the time stored
    requestCostTime,  \* r.requestCostTime
    requestInstance,  \* r.requestInstance: timestamps, front first
    maxRequestNum,    \* r.maxRequestNum
    rpc,              \* per request id, the positions of the calls and of the
                      \* estimator goroutines made for it
    getter,           \* the getCurrentRequestBNum call: position, local, result
    durations,        \* the durations IdleStart measured, in order
    estPanic,         \* a goroutine of the estimator has panicked

    mu,               \* s.mu: the task that holds it
    longPollingMu,    \* s.longPollingMu: the task that holds it
    ipc               \* per request, the position of the Idle call under way
                      \* for its Assignment, when its steps are told apart

\* The two locks of Simple and the Idle calls that are between their steps.
lockVars == <<mu, longPollingMu, ipc>>

\* s.runtimeStatus and the goroutines that work on it.
estVars == <<requestDuration, requestCostTime, requestInstance, maxRequestNum,
             rpc, getter, durations, estPanic>>

vars == <<instances, Busy, LastIdleTime, idleInstance, longPollingList, chan,
          creatingNum, apc, reply, cpc, notifying, ticket, idleLog, destroyed,
          gcpc, now, badIdle, nilStart, estVars, lockVars>>

Range(s) == {s[k] : k \in 1..Len(s)}
Front(s) == SubSeq(s, 1, Len(s) - 1)
Back(s) == s[Len(s)]
Occurrences(s, x) == Cardinality({k \in 1..Len(s) : s[k] = x})

RECURSIVE SumLen(_, _)
SumLen(f, n) == IF n = 0 THEN 0 ELSE Len(f[n]) + SumLen(f, n - 1)
\* Number of Idle calls made so far.
IdleCalls == SumLen(idleLog, MaxReq + 1)

\* New: empty registry, idle pool and waiter queue, creatingNum 0, gcLoop started.
Init ==
    /\ instances = {}
    /\ Busy = [i \in Inst |-> FALSE]
    /\ LastIdleTime = [i \in Inst |-> 0]
    /\ idleInstance = <<>>
    /\ longPollingList = <<>>
    /\ chan = [r \in AllReqs |-> <<>>]
    /\ creatingNum = 0
    /\ apc = [r \in AllReqs |-> "new"]
    /\ reply = [r \in AllReqs |-> None]
    /\ cpc = [r \in AllReqs |-> "none"]
    /\ notifying = [p \in Inst \X NPc |-> 0]
    /\ ticket = [r \in AllReqs |-> 0]
    /\ idleLog = [r \in AllReqs |-> <<>>]
    /\ destroyed = [d \in Slots \X Reasons |-> 0]
    /\ gcpc = "sleep"
    /\ now = 0
    /\ badIdle = <<>>
    /\ nilStart = "none"
    /\ requestDuration = [id \in EstIds |-> NoEntry]
    /\ requestCostTime = 0
    /\ requestInstance = <<>>
    /\ maxRequestNum = 0
    /\ rpc = [id \in EstIds |-> [call |-> "new", start |-> "none",
                                 ret |-> "none", idle |-> "none",
                                 timeStamp |-> 0, requestCostTime |-> 0]]
    /\ getter = [pc |-> "none", requestCostTime |-> 0, calls |-> 0,
                 requestNum |-> 0]
    /\ durations = <<>>
    /\ estPanic = FALSE
    /\ mu = NoTask
    /\ longPollingMu = NoTask
    /\ ipc = [r \in AllReqs |-> [pc |-> "none", needDestroy |-> FALSE,
                                 slotId |-> NoSlot, defers |-> <<>>]]

\* go s.notifyRequest(instance): one more goroutine at its first statement.
Spawn(n, i) == [n EXCEPT ![<<i, "lock">>] = @ + 1]
\* A notifyRequest goroutine of instance i moves from position p to q.
Move(n, i, p, q) == [n EXCEPT ![<<i, p>>] = @ - 1, ![<<i, q>>] = @ + 1]
\* A notifyRequest goroutine of instance i returns from position p.
Leave(n, i, p) == [n EXCEPT ![<<i, p>>] = @ - 1]

----
\* Assign, lines 119-138: the critical section on s.mu.
AssignLookup(r) ==
    /\ apc[r] = "new"
    /\ \A q \in AllReqs : q < r => apc[q] # "new"
    /\ IF idleInstance # <<>>
       THEN LET i == Head(idleInstance) IN
            /\ Busy' = [Busy EXCEPT ![i] = TRUE]
            /\ idleInstance' = Tail(idleInstance)
            /\ apc' = [apc EXCEPT ![r] = "assigned"]
            /\ reply' = [reply EXCEPT ![r] = i]
       ELSE /\ apc' = [apc EXCEPT ![r] = "miss"]
            /\ UNCHANGED <<Busy, idleInstance, reply>>
    /\ UNCHANGED <<instances, LastIdleTime, longPollingList, chan, creatingNum,
                   cpc, notifying, ticket, idleLog, destroyed, gcpc, now,
                   badIdle, nilStart, estVars>>

\* Rank of arrival given to a waiter that joins the queue l: one more than the
\* largest rank of the waiters queued.
RECURSIVE MaxTicket(_)
MaxTicket(l) ==
    IF l = <<>> THEN 0
    ELSE LET m == MaxTicket(Tail(l)) IN
         IF ticket[Head(l)] > m THEN ticket[Head(l)] ELSE m

\* Assign, line 143: s.longPollingList.PushBack(longPollingChan).
PushBack(l, w) == Append(l, w)

\* Assign, lines 141-152: the critical section on s.longPollingMu.
AssignEnqueue(r) ==
    /\ apc[r] = "miss"
    /\ longPollingList' = PushBack(longPollingList, r)
    /\ ticket' = [ticket EXCEPT ![r] = MaxTicket(longPollingList) + 1]
    /\ cpc' = IF Len(longPollingList') > creatingNum
              THEN [cpc EXCEPT ![r] = "start"]
              ELSE cpc
    /\ apc' = [apc EXCEPT ![r] = "wait"]
    /\ UNCHANGED <<instances, Busy, LastIdleTime, idleInstance, chan,
                   creatingNum, reply, notifying, idleLog, destroyed, gcpc, now,
                   badIdle, nilStart, estVars>>

\* Assign, lines 158-169: the select receives from the waiter channel.
AssignReceive(r) ==
    /\ apc[r] = "wait"
    /\ chan[r] # <<>>
    /\ LET i == Head(chan[r]) IN
       /\ chan' = [chan EXCEPT ![r] = Tail(@)]
       /\ Busy' = [Busy EXCEPT ![i] = TRUE]
       /\ reply' = [reply EXCEPT ![r] = i]
    /\ apc' = [apc EXCEPT ![r] = "assigned"]
    /\ UNCHANGED <<instances, LastIdleTime, idleInstance, longPollingList,
                   creatingNum, cpc, notifying, ticket, idleLog, destroyed,
                   gcpc, now,
                   badIdle, nilStart, estVars>>

\* Assign, lines 155-157: the select takes ctx.Done() and returns ctx.Err().
AssignCancel(r) ==
    /\ apc[r] = "wait"
    /\ apc' = [apc EXCEPT ![r] = "cancelled"]
    /\ UNCHANGED <<instances, Busy, LastIdleTime, idleInstance, longPollingList,
                   chan, creatingNum, reply, cpc, notifying, ticket, idleLog,
                   destroyed, gcpc, now,
                   badIdle, nilStart, estVars>>

----
\* Idle, lines 203 and 221: the status returned.
IdleStatus(i) == IF i \in instances THEN "Ok" ELSE "NotFound"

\* Idle, lines 203-218: whether the notifyRequest goroutine is started.
IdleNotifies(i, needDestroy) == i \in instances /\ ~needDestroy /\ Busy[i]

\* Idle, lines 195-199: the slot the deferred deleteSlot is called with; slotId
\* is "" unless the instance was found (line 204).
IdleSlot(i) == IF i \in instances THEN i ELSE NoSlot

\* Idle, lines 173-227, for the Assignment returned to request r.  The body runs
\* under s.mu; the deferred deleteSlot runs after the unlock, on every return path.
Idle(r, needDestroy) ==
    /\ apc[r] = "assigned"
    /\ IdleCalls < MaxIdleCalls
    /\ LET i == reply[r] IN
       /\ notifying' = IF IdleNotifies(i, needDestroy)
                       THEN Spawn(notifying, i)
                       ELSE notifying
       /\ destroyed' = IF needDestroy
                       THEN [destroyed EXCEPT
                               ![<<IdleSlot(i), "bad instance">>] = @ + 1]
                       ELSE destroyed
       /\ idleLog' = [idleLog EXCEPT ![r] =
              Append(@, [needDestroy |-> needDestroy, status |-> IdleStatus(i)])]
    /\ UNCHANGED <<instances, Busy, LastIdleTime, idleInstance, longPollingList,
                   chan, creatingNum, apc, reply, cpc, ticket, gcpc, now,
                   badIdle, nilStart, estVars>>

----
\* A faulty NotifyTarget: the waiter served is s.longPollingList.Back().
NotifyTarget_Back(l) == Len(l)

\* notifyRequest, line 87: the waiter served, s.longPollingList.Front().
NotifyTarget(l) == 1

\* A faulty NotifyLock: the waiter served stays in s.longPollingList.
NotifyLock_KeepsWaiter(i) ==
    /\ notifying[<<i, "lock">>] > 0
    /\ IF longPollingList # <<>>
       THEN LET w == longPollingList[NotifyTarget(longPollingList)] IN
            /\ Len(chan[w]) < ChanCap
            /\ chan' = [chan EXCEPT ![w] = Append(@, i)]
            /\ notifying' = Leave(notifying, i, "lock")
       ELSE /\ notifying' = Move(notifying, i, "lock", "set")
            /\ UNCHANGED chan
    /\ UNCHANGED <<instances, Busy, LastIdleTime, idleInstance, longPollingList,
                   ticket, creatingNum, apc, reply, cpc, idleLog, destroyed,
                   gcpc, now, badIdle, nilStart, estVars, lockVars>>

\* notifyRequest, lines 85-100: the critical section on s.longPollingMu.  The
\* send blocks while the channel is full.
NotifyLock(i) ==
    /\ notifying[<<i, "lock">>] > 0
    /\ IF longPollingList # <<>>
       THEN LET k == NotifyTarget(longPollingList)
                w == longPollingList[k] IN
            /\ Len(chan[w]) < ChanCap
            /\ longPollingList' = SubSeq(longPollingList, 1, k - 1)
                     \o SubSeq(longPollingList, k + 1, Len(longPollingList))
            /\ ticket' = [ticket EXCEPT ![w] = 0]
            /\ chan' = [chan EXCEPT ![w] = Append(@, i)]
            /\ notifying' = Leave(notifying, i, "lock")
       ELSE /\ notifying' = Move(notifying, i, "lock", "set")
            /\ UNCHANGED <<longPollingList, ticket, chan>>
    /\ UNCHANGED <<instances, Busy, LastIdleTime, idleInstance, creatingNum, apc,
                   reply, cpc, idleLog, destroyed, gcpc, now,
                   badIdle, nilStart, estVars>>

\* notifyRequest, lines 101-102: no lock is held.
NotifySet(i) ==
    /\ notifying[<<i, "set">>] > 0
    /\ Busy' = [Busy EXCEPT ![i] = FALSE]
    /\ LastIdleTime' = [LastIdleTime EXCEPT ![i] = now]
    /\ notifying' = Move(notifying, i, "set", "push")
    /\ UNCHANGED <<instances, idleInstance, longPollingList, chan, creatingNum,
                   apc, reply, cpc, ticket, idleLog, destroyed, gcpc, now,
                   badIdle, nilStart, estVars>>

\* notifyRequest, lines 103-105: the critical section on s.mu.
NotifyPush(i) ==
    /\ notifying[<<i, "push">>] > 0
    /\ idleInstance' = <<i>> \o idleInstance
    /\ notifying' = Leave(notifying, i, "push")
    /\ UNCHANGED <<instances, Busy, LastIdleTime, longPollingList, chan,
                   creatingNum, apc, reply, cpc, ticket, idleLog, destroyed,
                   gcpc, now,
                   badIdle, nilStart, estVars>>

----
\* createInstance, line 281: atomic.AddInt64(&s.creatingNum, 1).
CreateBegin(r) ==
    /\ cpc[r] = "start"
    /\ creatingNum' = creatingNum + 1
    /\ cpc' = [cpc EXCEPT ![r] = "slot"]
    /\ UNCHANGED <<instances, Busy, LastIdleTime, idleInstance, longPollingList,
                   chan, apc, reply, notifying, ticket, idleLog, destroyed,
                   gcpc, now,
                   badIdle, nilStart, estVars>>

\* createInstance, lines 291-292: CreateSlot returns a slot.
CreateSlotOk(r) ==
    /\ cpc[r] = "slot"
    /\ cpc' = [cpc EXCEPT ![r] = "init"]
    /\ UNCHANGED <<instances, Busy, LastIdleTime, idleInstance, longPollingList,
                   chan, creatingNum, apc, reply, notifying, ticket, idleLog,
                   destroyed, gcpc, now,
                   badIdle, nilStart, estVars>>

\* createInstance, lines 292-295: CreateSlot returns an error and the function
\* returns.
CreateSlotFail(r) ==
    /\ cpc[r] = "slot"
    /\ cpc' = [cpc EXCEPT ![r] = "exit"]
    /\ UNCHANGED <<instances, Busy, LastIdleTime, idleInstance, longPollingList,
                   chan, creatingNum, apc, reply, notifying, ticket, idleLog,
                   destroyed, gcpc, now,
                   badIdle, nilStart, estVars>>

\* createInstance, lines 304-305: Init returns the instance.
InitOk(r) ==
    /\ cpc[r] = "init"
    /\ cpc' = [cpc EXCEPT ![r] = "reg"]
    /\ UNCHANGED <<instances, Busy, LastIdleTime, idleInstance, longPollingList,
                   chan, creatingNum, apc, reply, notifying, ticket, idleLog,
                   destroyed, gcpc, now,
                   badIdle, nilStart, estVars>>

\* A faulty InitFail: the return after a failed Init skips the decrement of
\* creatingNum.
InitFail_NoDecrement(r) ==
    /\ cpc[r] = "init"
    /\ cpc' = [cpc EXCEPT ![r] = "done"]
    /\ UNCHANGED <<instances, Busy, LastIdleTime, idleInstance, longPollingList,
                   chan, creatingNum, apc, reply, notifying, ticket, idleLog,
                   destroyed, gcpc, now,
                   badIdle, nilStart, estVars>>

\* createInstance, lines 305-308: Init returns an error and the function
\* returns.
InitFail(r) ==
    /\ cpc[r] = "init"
    /\ cpc' = [cpc EXCEPT ![r] = "exit"]
    /\ UNCHANGED <<instances, Busy, LastIdleTime, idleInstance, longPollingList,
                   chan, creatingNum, apc, reply, notifying, ticket, idleLog,
                   destroyed, gcpc, now,
                   badIdle, nilStart, estVars>>

\* createInstance, lines 310-318: the instance Init returned (not busy) is
\* registered under s.mu, and its notifyRequest goroutine is started.  The
\* LastIdleTime Init gave it is never read: notifyRequest overwrites it (line
\* 102) before the instance enters the idle pool, where gcLoop reads it.
CreateRegister(r) ==
    /\ cpc[r] = "reg"
    /\ instances' = instances \cup {r}
    /\ Busy' = [Busy EXCEPT ![r] = FALSE]
    /\ notifying' = Spawn(notifying, r)
    /\ cpc' = [cpc EXCEPT ![r] = "exit"]
    /\ UNCHANGED <<LastIdleTime, idleInstance, longPollingList, chan,
                   creatingNum, apc, reply, ticket, idleLog, destroyed, gcpc, now,
                   badIdle, nilStart, estVars>>

\* createInstance, line 282: the deferred atomic.AddInt64(&s.creatingNum, -1),
\* run when the function returns.
CreateExit(r) ==
    /\ cpc[r] = "exit"
    /\ creatingNum' = creatingNum - 1
    /\ cpc' = [cpc EXCEPT ![r] = "done"]
    /\ UNCHANGED <<instances, Busy, LastIdleTime, idleInstance, longPollingList,
                   chan, apc, reply, notifying, ticket, idleLog, destroyed,
                   gcpc, now,
                   badIdle, nilStart, estVars>>

----
\* gcLoop, line 240: the ticker fires and the inner loop starts.
GcTick ==
    /\ gcpc = "sleep"
    /\ gcpc' = "scan"
    /\ UNCHANGED <<instances, Busy, LastIdleTime, idleInstance, longPollingList,
                   chan, creatingNum, apc, reply, cpc, notifying, ticket,
                   idleLog, destroyed, now,
                   badIdle, nilStart, estVars>>

\* A faulty Expired: idleDuration >= s.config.IdleDurationBeforeGC.
Expired_AtLeast(i) == now - LastIdleTime[i] >= IdleDurationBeforeGC

\* gcLoop, lines 245-246: idleDuration > s.config.IdleDurationBeforeGC.
Expired(i) == now - LastIdleTime[i] > IdleDurationBeforeGC

\* gcLoop, line 243: the element inspected, s.idleInstance.Back().
GcVictim(l) == Len(l)

\* gcLoop, lines 242-260: an iteration that evicts, under s.mu; the goroutine
\* it starts calls DestroySLot.
GcEvict ==
    /\ gcpc = "scan"
    /\ idleInstance # <<>>
    /\ LET k == GcVictim(idleInstance)
           i == idleInstance[k] IN
       /\ Expired(i)
       /\ idleInstance' = SubSeq(idleInstance, 1, k - 1)
                            \o SubSeq(idleInstance, k + 1, Len(idleInstance))
       /\ instances' = instances \ {i}
       /\ destroyed' = [destroyed EXCEPT ![<<i, "gc">>] = @ + 1]
    /\ UNCHANGED <<Busy, LastIdleTime, longPollingList, chan, creatingNum, apc,
                   reply, cpc, notifying, ticket, idleLog, gcpc, now,
                   badIdle, nilStart, estVars>>

\* gcLoop, lines 242-264: the iteration that finds nothing to evict and breaks.
GcBreak ==
    /\ gcpc = "scan"
    /\ IF idleInstance = <<>> THEN TRUE
       ELSE ~Expired(idleInstance[GcVictim(idleInstance)])
    /\ gcpc' = "sleep"
    /\ UNCHANGED <<instances, Busy, LastIdleTime, idleInstance, longPollingList,
                   chan, creatingNum, apc, reply, cpc, notifying, ticket,
                   idleLog, destroyed, now,
                   badIdle, nilStart, estVars>>

\* The clock advances.
Tick ==
    /\ now < MaxTime
    /\ now' = now + 1
    /\ UNCHANGED <<instances, Busy, LastIdleTime, idleInstance, longPollingList,
                   chan, creatingNum, apc, reply, cpc, notifying, ticket,
                   idleLog, destroyed, gcpc, badIdle, nilStart, estVars>>

\* Stats, lines 269-276.
Stats == [TotalInstance |-> Cardinality(instances),
          TotalIdleInstance |-> Len(idleInstance)]

----
\* The steps of the Assign and Idle calls for the requests of R, and of the
\* goroutines they start.
Calls(R) ==
    \/ \E r \in R : AssignLookup(r) /\ UNCHANGED lockVars
    \/ \E r \in R : AssignEnqueue(r) /\ UNCHANGED lockVars
    \/ \E r \in R : AssignReceive(r) /\ UNCHANGED lockVars
    \/ \E r \in R : AssignCancel(r) /\ UNCHANGED lockVars
    \/ \E r \in R, needDestroy \in BOOLEAN :
          Idle(r, needDestroy) /\ UNCHANGED lockVars
    \/ \E i \in Inst : NotifyLock(i) /\ UNCHANGED lockVars
    \/ \E i \in Inst : NotifySet(i) /\ UNCHANGED lockVars
    \/ \E i \in Inst : NotifyPush(i) /\ UNCHANGED lockVars
    \/ \E r \in R : CreateBegin(r) /\ UNCHANGED lockVars
    \/ \E r \in R : CreateSlotOk(r) /\ UNCHANGED lockVars
    \/ \E r \in R : CreateSlotFail(r) /\ UNCHANGED lockVars
    \/ \E r \in R : InitOk(r) /\ UNCHANGED lockVars
    \/ \E r \in R : InitFail(r) /\ UNCHANGED lockVars
    \/ \E r \in R : CreateRegister(r) /\ UNCHANGED lockVars
    \/ \E r \in R : CreateExit(r) /\ UNCHANGED lockVars

\* The scaler serving MaxReq requests while the clock runs and gcLoop collects.
Next ==
    \/ Calls(Reqs)
    \/ GcTick /\ UNCHANGED lockVars
    \/ GcEvict /\ UNCHANGED lockVars
    \/ GcBreak /\ UNCHANGED lockVars
    \/ Tick /\ UNCHANGED lockVars

Spec == Init /\ [][Next]_vars

\* The scaler serving one request more, up to the first tick of the GC ticker.
NextMore == Calls(AllReqs)

SpecMore == Init /\ [][NextMore]_vars

----
Held(r) == apc[r] = "assigned" /\ idleLog[r] = <<>>

\* C1: no two Assign calls that returned an Assignment and were not yet
\* released through Idle carry the same InstanceId.
C1_DistinctInstanceIds ==
    \A r1, r2 \in AllReqs :
        (r1 # r2 /\ Held(r1) /\ Held(r2)) => reply[r1] # reply[r2]

\* The Idle call number n for request r is made in this step, with NeedDestroy d.
IdleCalled(r, n, d) ==
    /\ Len(idleLog[r]) = n - 1
    /\ Len(idleLog'[r]) = n
    /\ idleLog'[r][n].needDestroy = d

\* C2: the second of two sequential Idle calls for one Assignment, NeedDestroy
\* unset in both, returns Ok and is a no-op: it starts no notifyRequest and
\* changes neither the idle pool, the waiter queue nor a Busy flag.
C2_SecondIdleNoOp ==
    [][\A r \in AllReqs :
          (IdleCalled(r, 2, FALSE) /\ ~idleLog[r][1].needDestroy) =>
              /\ idleLog'[r][2].status = "Ok"
              /\ notifying' = notifying
              /\ idleInstance' = idleInstance
              /\ longPollingList' = longPollingList
              /\ Busy' = Busy]_vars

\* C3: an Instance is in the idle pool if and only if it is registered and its
\* Busy flag is false.
C3_IdleIffRegisteredNotBusy ==
    \A i \in Inst :
        (i \in Range(idleInstance)) <=> (i \in instances /\ ~Busy[i])

\* C4: each Instance id occurs at most once in the idle pool (the registry is
\* a map keyed by id, so it holds each id once).
C4_IdleOnce ==
    \A i \in Inst : Occurrences(idleInstance, i) <= 1

\* C5: Idle with NeedDestroy=true for a registered instance returns Ok, calls
\* DestroySlot for its slot with reason "bad instance", and leaves the instance
\* in neither the registry (so Stats.TotalInstance does not count it) nor the
\* idle pool.
C5_DestroyRemoves ==
    [][\A r \in AllReqs, n \in 1..MaxIdleCalls :
          (IdleCalled(r, n, TRUE) /\ reply[r] \in instances) =>
              /\ idleLog'[r][n].status = "Ok"
              /\ destroyed'[<<reply[r], "bad instance">>]
                   = destroyed[<<reply[r], "bad instance">>] + 1
              /\ reply[r] \notin instances'
              /\ reply[r] \notin Range(idleInstance')]_vars

\* C6: once an Assign that missed the idle pool has returned the cancellation
\* error with nothing delivered to it, no instance is placed on its channel.
C6_NothingSentToCancelled ==
    [][\A r \in AllReqs :
          (apc[r] = "cancelled" /\ chan[r] = <<>>) => chan'[r] = <<>>]_vars

\* An instance is sent on the channel of waiter w in this step.
Delivered(w) == Len(chan'[w]) > Len(chan[w])

\* C7: a waiter that is delivered an instance arrived in the queue before
\* every other waiter still queued.
C7_Fifo ==
    [][\A w \in AllReqs :
          Delivered(w) =>
              /\ ticket[w] > 0
              /\ \A q \in Range(longPollingList) \ {w} : ticket[w] < ticket[q]]_vars

\* A waiter holds a delivered instance while a waiter that arrived behind
\* another one is the only one still queued.
C7_Witness ==
    \E w, q \in AllReqs :
        /\ chan[w] # <<>>
        /\ longPollingList = <<q>>
        /\ ticket[q] >= 2

\* No notifyRequest and no createInstance is running.
Settled ==
    /\ \A p \in Inst \X NPc : notifying[p] = 0
    /\ \A q \in AllReqs : cpc[q] \in {"none", "done"}

\* C8: after Assign returned instance I to request r and the one Idle call
\* (NeedDestroy unset) for it has been carried out, with no other Assign
\* assigned or in progress and I not collected, I is in the idle pool; when I
\* is the only instance it is the front of the pool, which the next Assign pops.
C8_RoundTrip ==
    \A r \in AllReqs :
        ( /\ apc[r] = "assigned"
          /\ idleLog[r] = <<[needDestroy |-> FALSE, status |-> "Ok"]>>
          /\ IdleCalls = 1
          /\ \A q \in AllReqs \ {r} : apc[q] \in {"new", "cancelled"}
          /\ Settled
          /\ reply[r] \in instances )
        => /\ reply[r] \in Range(idleInstance)
           /\ instances = {reply[r]} => idleInstance = <<reply[r]>>

\* gcLoop evicts instance i in this step.
GcEvicted(i) == destroyed'[<<i, "gc">>] > destroyed[<<i, "gc">>]

\* C9: gcLoop only evicts the back of the idle pool, only when now -
\* LastIdleTime exceeds IdleDurationBeforeGC, and the eviction takes the
\* element out of the idle pool and the instance out of the registry at once.
C9_GcEvictsExpiredBack ==
    [][\A i \in Inst :
          GcEvicted(i) =>
              /\ idleInstance # <<>>
              /\ i = Back(idleInstance)
              /\ now - LastIdleTime[i] > IdleDurationBeforeGC
              /\ idleInstance' = Front(idleInstance)
              /\ instances' = instances \ {i}]_vars

\* gcLoop has evicted an instance and left a younger one in the idle pool.
C9_Witness ==
    \E i \in Inst :
        /\ destroyed[<<i, "gc">>] > 0
        /\ idleInstance # <<>>
        /\ now - LastIdleTime[Back(idleInstance)] <= IdleDurationBeforeGC

\* The createInstance executions that incremented creatingNum and have not
\* yet decremented it.
InFlight == {r \in AllReqs : cpc[r] \in {"slot", "init", "reg", "exit"}}

\* C10: creatingNum is never negative and equals the number of createInstance
\* executions that incremented it and have not exited yet.
C10_CreatingNum ==
    /\ creatingNum >= 0
    /\ creatingNum = Cardinality(InFlight)

\* A creation has succeeded, another has failed, both have returned, and
\* creatingNum is back to 0.
C10_Witness ==
    \E r1, r2 \in AllReqs :
        /\ cpc[r1] = "done" /\ r1 \in instances
        /\ cpc[r2] = "done" /\ r2 \notin instances /\ destroyed[<<r2, "gc">>] = 0
        /\ creatingNum = 0

----
\* The createInstance goroutines started (line 152) that have not yet returned
\* from their body.
Live == {r \in AllReqs : cpc[r] \in {"start", "slot", "init", "reg"}}

\* The Assign of request r starts a createInstance in this step.
SpawnsCreate(r) == cpc[r] = "none" /\ cpc'[r] = "start"

\* C11: when an Assign starts a createInstance, the creations then live (the
\* new one included) are no more than the waiters in the queue, and one step
\* of an Assign starts at most one creation.
C11_CreationBound ==
    [][\A r \in AllReqs :
          SpawnsCreate(r) =>
              /\ Cardinality(Live') <= Len(longPollingList')
              /\ Cardinality(Live') <= Cardinality(Live) + 1]_vars

----
\* A burst: the Assign calls of all the requests are issued together on the
\* new scaler, no context is cancelled, no Idle is called, and CreateSlot and
\* Init succeed.  No instance reaches the unlocked branch of notifyRequest
\* then (BurstAllHandedOff), so its steps after line 100 are not listed.
NextBurst ==
    \/ \E r \in AllReqs : AssignLookup(r) /\ UNCHANGED lockVars
    \/ \E r \in AllReqs : AssignEnqueue(r) /\ UNCHANGED lockVars
    \/ \E r \in AllReqs : AssignReceive(r) /\ UNCHANGED lockVars
    \/ \E i \in Inst : NotifyLock(i) /\ UNCHANGED lockVars
    \/ \E r \in AllReqs : CreateBegin(r) /\ UNCHANGED lockVars
    \/ \E r \in AllReqs : CreateSlotOk(r) /\ UNCHANGED lockVars
    \/ \E r \in AllReqs : InitOk(r) /\ UNCHANGED lockVars
    \/ \E r \in AllReqs : CreateRegister(r) /\ UNCHANGED lockVars
    \/ \E r \in AllReqs : CreateExit(r) /\ UNCHANGED lockVars

\* The Go scheduler runs every goroutine that is able to run: an Assign at a
\* Lock or with an instance on its channel, a createInstance whose RPC has
\* answered, a notifyRequest at its Lock.
BurstFairness ==
    /\ \A r \in AllReqs :
          /\ WF_vars(AssignLookup(r) /\ UNCHANGED lockVars)
          /\ WF_vars(AssignEnqueue(r) /\ UNCHANGED lockVars)
          /\ WF_vars(AssignReceive(r) /\ UNCHANGED lockVars)
          /\ WF_vars(CreateBegin(r) /\ UNCHANGED lockVars)
          /\ WF_vars(CreateSlotOk(r) /\ UNCHANGED lockVars)
          /\ WF_vars(InitOk(r) /\ UNCHANGED lockVars)
          /\ WF_vars(CreateRegister(r) /\ UNCHANGED lockVars)
          /\ WF_vars(CreateExit(r) /\ UNCHANGED lockVars)
    /\ \A i \in Inst : WF_vars(NotifyLock(i) /\ UNCHANGED lockVars)

SpecBurst == Init /\ [][NextBurst]_vars /\ BurstFairness

\* In a burst every notifyRequest finds a waiter.
BurstAllHandedOff ==
    \A i \in Inst : notifying[<<i, "set">>] = 0 /\ notifying[<<i, "push">>] = 0

\* Every Assign of the burst has returned, each with an instance of its own,
\* every request started a creation and all creations have returned.
BurstDone ==
    /\ \A r \in AllReqs : apc[r] = "assigned" /\ cpc[r] = "done"
    /\ \A r1, r2 \in AllReqs : r1 # r2 => reply[r1] # reply[r2]
    /\ creatingNum = 0
    /\ instances = Inst
    /\ idleInstance = <<>>
    /\ longPollingList = <<>>

\* C12: a burst of Assign calls on the empty scaler, with no cancellation and
\* no platform failure, eventually has one creation per request, every Assign
\* returned with a distinct instance, creatingNum 0, all instances registered,
\* and the idle pool and the waiter queue empty.
C12_BurstLiveness == <>BurstDone

----
\* Number of Idle calls made with no Assignment or with an unknown InstanceId.
MaxBadIdle == 1
\* An InstanceId that no createInstance produced.
Unknown == MaxReq + 2

\* Idle, lines 173-179, with request.Assigment nil: the goroutine of lines
\* 174-176 is started and the call returns InvalidArgument before any defer
\* is set up.
IdleNil ==
    /\ Len(badIdle) < MaxBadIdle
    /\ badIdle' = Append(badIdle, [assignment |-> "nil", needDestroy |-> FALSE,
                                   status |-> "InvalidArgument"])
    /\ nilStart' = "ready"
    /\ UNCHANGED <<instances, Busy, LastIdleTime, idleInstance, longPollingList,
                   chan, creatingNum, apc, reply, cpc, notifying, ticket,
                   idleLog, destroyed, gcpc, now, estVars>>

\* Idle, line 175, run by the goroutine when request.Assigment is nil: reading
\* request.Assigment.RequestId dereferences the nil pointer, and the panic of
\* a goroutine without recover ends the process.
IdleStartNil ==
    /\ nilStart = "ready"
    /\ nilStart' = "panic"
    /\ UNCHANGED <<instances, Busy, LastIdleTime, idleInstance, longPollingList,
                   chan, creatingNum, apc, reply, cpc, notifying, ticket,
                   idleLog, destroyed, gcpc, now, badIdle, estVars>>

\* Idle, lines 173-227, naming the InstanceId Unknown: the lookup under s.mu
\* fails, and the deferred deleteSlot runs with slotId "".
IdleUnknown(needDestroy) ==
    /\ Len(badIdle) < MaxBadIdle
    /\ badIdle' = Append(badIdle, [assignment |-> "unknown",
                                   needDestroy |-> needDestroy,
                                   status |-> IdleStatus(Unknown)])
    /\ notifying' = IF IdleNotifies(Unknown, needDestroy)
                    THEN Spawn(notifying, Unknown)
                    ELSE notifying
    /\ destroyed' = IF needDestroy
                    THEN [destroyed EXCEPT
                            ![<<IdleSlot(Unknown), "bad instance">>] = @ + 1]
                    ELSE destroyed
    /\ UNCHANGED <<instances, Busy, LastIdleTime, idleInstance, longPollingList,
                   chan, creatingNum, apc, reply, cpc, ticket, idleLog, gcpc,
                   now, nilStart, estVars>>

\* The process runs: no goroutine has panicked.
Alive == nilStart # "panic"

\* The scaler of Spec, also called with Idle requests that carry no Assignment
\* or an unknown InstanceId.  Nothing runs after a panic.
NextIdle ==
    \/ \E r \in Reqs : Alive /\ AssignLookup(r) /\ UNCHANGED lockVars
    \/ \E r \in Reqs : Alive /\ AssignEnqueue(r) /\ UNCHANGED lockVars
    \/ \E r \in Reqs : Alive /\ AssignReceive(r) /\ UNCHANGED lockVars
    \/ \E r \in Reqs : Alive /\ AssignCancel(r) /\ UNCHANGED lockVars
    \/ \E r \in Reqs, needDestroy \in BOOLEAN :
          Alive /\ Idle(r, needDestroy) /\ UNCHANGED lockVars
    \/ \E i \in Inst : Alive /\ NotifyLock(i) /\ UNCHANGED lockVars
    \/ \E i \in Inst : Alive /\ NotifySet(i) /\ UNCHANGED lockVars
    \/ \E i \in Inst : Alive /\ NotifyPush(i) /\ UNCHANGED lockVars
    \/ \E r \in Reqs : Alive /\ CreateBegin(r) /\ UNCHANGED lockVars
    \/ \E r \in Reqs : Alive /\ CreateSlotOk(r) /\ UNCHANGED lockVars
    \/ \E r \in Reqs : Alive /\ CreateSlotFail(r) /\ UNCHANGED lockVars
    \/ \E r \in Reqs : Alive /\ InitOk(r) /\ UNCHANGED lockVars
    \/ \E r \in Reqs : Alive /\ InitFail(r) /\ UNCHANGED lockVars
    \/ \E r \in Reqs : Alive /\ CreateRegister(r) /\ UNCHANGED lockVars
    \/ \E r \in Reqs : Alive /\ CreateExit(r) /\ UNCHANGED lockVars
    \/ Alive /\ GcTick /\ UNCHANGED lockVars
    \/ Alive /\ GcEvict /\ UNCHANGED lockVars
    \/ Alive /\ GcBreak /\ UNCHANGED lockVars
    \/ Alive /\ Tick /\ UNCHANGED lockVars
    \/ Alive /\ IdleNil /\ UNCHANGED lockVars
    \/ Alive /\ IdleStartNil /\ UNCHANGED lockVars
    \/ \E needDestroy \in BOOLEAN : Alive /\ IdleUnknown(needDestroy) /\ UNCHANGED lockVars

SpecIdle == Init /\ [][NextIdle]_vars

\* An Idle call with no Assignment or with the InstanceId Unknown is made in
\* this step.
BadIdleCalled == Len(badIdle') = Len(badIdle) + 1

\* The registry, the idle pool, the waiter queue and the DestroySLot calls made
\* are the same after this step.
IdleLeavesState ==
    /\ instances' = instances
    /\ idleInstance' = idleInstance
    /\ longPollingList' = longPollingList
    /\ destroyed' = destroyed

\* C13: Idle with no Assignment returns InvalidArgument, Idle naming an
\* instance id that is not registered returns NotFound whatever NeedDestroy
\* is; such a call changes neither the registry, the idle pool nor the waiter
\* queue, makes no DestroySLot call, and no fault follows from it.
C13_IdleErrors ==
    [][/\ BadIdleCalled =>
            /\ Back(badIdle').status =
                 (IF Back(badIdle').assignment = "nil"
                  THEN "InvalidArgument" ELSE "NotFound")
            /\ IdleLeavesState
       /\ \A r \in AllReqs, n \in 1..MaxIdleCalls, d \in BOOLEAN :
            (IdleCalled(r, n, d) /\ reply[r] \notin instances) =>
                /\ idleLog'[r][n].status = "NotFound"
                /\ IdleLeavesState
       /\ nilStart' # "panic"]_vars

----
(***************************************************************************)
(* The runtime cost estimator, RuntimeStatus (simple.go lines 341-430,     *)
(* runtimeStatus.go), and the goroutines Assign and Idle start on it.      *)
(* Durations and timestamps are counted in ticks of the clock.             *)
(***************************************************************************)
\* rctRate, 0.9, as the fraction RctNum / RctDen.
RctNum == 9
RctDen == 10
\* time.Since of the zero time.Time: the largest Duration.
MaxDuration == 1000

\* The variables of the scaler proper, the clock apart.
scalerState == <<instances, Busy, LastIdleTime, idleInstance, longPollingList,
                 chan, creatingNum, apc, reply, cpc, notifying, ticket,
                 idleLog, destroyed, gcpc, badIdle, nilStart>>

\* time.Since(t).
Since(t) == IF t = NoEntry THEN MaxDuration ELSE now - t

\* list.Remove of the k-th element.
ListRemove(l, k) == SubSeq(l, 1, k - 1) \o SubSeq(l, k + 1, Len(l))

\* Assign, line 111: go s.runtimeStatus.AssignStart(time.Now()); the argument
\* is evaluated by Assign.
CallAssign(id) ==
    /\ ~estPanic
    /\ rpc[id].call = "new"
    /\ \A q \in EstIds : q < id => rpc[q].call # "new"
    /\ rpc' = [rpc EXCEPT ![id].call = "called", ![id].start = "ready",
                          ![id].timeStamp = now]
    /\ UNCHANGED <<scalerState, now, requestDuration, requestCostTime,
                   requestInstance, maxRequestNum, getter, durations, estPanic>>

\* Assign, lines 113-115: the deferred go s.runtimeStatus.AssignReturn(id), run
\* when Assign returns.
ReturnAssign(id) ==
    /\ ~estPanic
    /\ rpc[id].call = "called"
    /\ rpc' = [rpc EXCEPT ![id].call = "returned", ![id].ret = "ready"]
    /\ UNCHANGED <<scalerState, now, requestDuration, requestCostTime,
                   requestInstance, maxRequestNum, getter, durations, estPanic>>

\* Idle, lines 174-176, called with the Assignment that Assign returned: go
\* s.runtimeStatus.IdleStart(id).
CallIdle(id) ==
    /\ ~estPanic
    /\ rpc[id].call = "returned"
    /\ rpc' = [rpc EXCEPT ![id].call = "idled", ![id].idle = "ready"]
    /\ UNCHANGED <<scalerState, now, requestDuration, requestCostTime,
                   requestInstance, maxRequestNum, getter, durations, estPanic>>

\* GetRequestCostTime, lines 382-386.
GetRequestCostTime == requestCostTime

\* AssignStart, line 389: requestCostTime := r.GetRequestCostTime().
AssignStartCost(id) ==
    /\ ~estPanic
    /\ rpc[id].start = "ready"
    /\ rpc' = [rpc EXCEPT ![id].start = "cost",
                          ![id].requestCostTime = GetRequestCostTime]
    /\ UNCHANGED <<scalerState, now, requestDuration, requestCostTime,
                   requestInstance, maxRequestNum, getter, durations, estPanic>>

\* AssignStart, lines 394-399: the loop from the k-th element of l.  After
\* list.Remove(element), element.Next() is nil, and the loop condition reads
\* element.Value of a nil element: a panic.
RECURSIVE AssignStartLoop(_, _, _, _)
AssignStartLoop(l, k, timeStamp, cost) ==
    IF l[k] = timeStamp
    THEN [requestInstance |-> l, panic |-> FALSE]
    ELSE IF Since(l[k]) > cost
         THEN [requestInstance |-> ListRemove(l, k), panic |-> TRUE]
         ELSE AssignStartLoop(l, k + 1, timeStamp, cost)

\* AssignStart, lines 390-405, under r.requestInstanceMu.
AssignStart(id) ==
    /\ ~estPanic
    /\ rpc[id].start = "cost"
    /\ LET out == AssignStartLoop(Append(requestInstance, rpc[id].timeStamp), 1,
                                  rpc[id].timeStamp, rpc[id].requestCostTime)
           requestNum == Len(out.requestInstance) IN
       /\ requestInstance' = out.requestInstance
       /\ estPanic' = out.panic
       /\ rpc' = [rpc EXCEPT ![id].start = IF out.panic THEN "panic" ELSE "done"]
       /\ maxRequestNum' = IF ~out.panic /\ requestNum > maxRequestNum
                           THEN requestNum ELSE maxRequestNum
    /\ UNCHANGED <<scalerState, now, requestDuration, requestCostTime, getter,
                   durations>>

\* AssignReturn, lines 362-367 (runtimeStatus.go 24-29).
AssignReturn(id) ==
    /\ ~estPanic
    /\ rpc[id].ret = "ready"
    /\ requestDuration' = [requestDuration EXCEPT ![id] = now]
    /\ rpc' = [rpc EXCEPT ![id].ret = "done"]
    /\ UNCHANGED <<scalerState, now, requestCostTime, requestInstance,
                   maxRequestNum, getter, durations, estPanic>>

\* IdleStart, lines 374-379: the new requestCostTime; the conversion to
\* time.Duration truncates.
CostTime(cost, duration) ==
    IF cost = 0 THEN duration
    ELSE (RctNum * cost + (RctDen - RctNum) * duration) \div RctDen

\* IdleStart, lines 369-380 (runtimeStatus.go 31-42).
IdleStart(id) ==
    /\ ~estPanic
    /\ rpc[id].idle = "ready"
    /\ LET duration == Since(requestDuration[id]) IN
       /\ requestCostTime' = CostTime(requestCostTime, duration)
       /\ durations' = Append(durations, duration)
    /\ rpc' = [rpc EXCEPT ![id].idle = "done"]
    /\ UNCHANGED <<scalerState, now, requestDuration, requestInstance,
                   maxRequestNum, getter, estPanic>>

\* getCurrentRequestBNum, line 413: requestCostTime := r.GetRequestCostTime().
GetCurrentCost ==
    /\ ~estPanic
    /\ getter.pc = "none"
    /\ getter.calls < MaxGets
    /\ getter' = [getter EXCEPT !.pc = "cost", !.calls = @ + 1,
                                !.requestCostTime = GetRequestCostTime]
    /\ UNCHANGED <<scalerState, now, requestDuration, requestCostTime,
                   requestInstance, maxRequestNum, rpc, durations, estPanic>>

\* getCurrentRequestBNum, lines 417-422: the loop from the k-th element of l.
\* After list.Remove(element), element.Next() is nil and the loop ends.
RECURSIVE GetCurrentLoop(_, _, _)
GetCurrentLoop(l, k, cost) ==
    IF k > Len(l) THEN l
    ELSE IF Since(l[k]) > cost THEN ListRemove(l, k)
         ELSE GetCurrentLoop(l, k + 1, cost)

\* getCurrentRequestBNum, lines 414-429, under r.requestInstanceMu.
GetCurrentRequestBNum ==
    /\ ~estPanic
    /\ getter.pc = "cost"
    /\ requestInstance' = GetCurrentLoop(requestInstance, 1,
                                         getter.requestCostTime)
    /\ getter' = [getter EXCEPT !.pc = "none",
                                !.requestNum = Len(requestInstance')]
    /\ maxRequestNum' = IF Len(requestInstance') > maxRequestNum
                        THEN Len(requestInstance') ELSE maxRequestNum
    /\ UNCHANGED <<scalerState, now, requestDuration, requestCostTime, rpc,
                   durations, estPanic>>

\* The estimator under the Assign and Idle calls of MaxEstReq requests.
NextEst ==
    \/ \E id \in EstIds : CallAssign(id) /\ UNCHANGED lockVars
    \/ \E id \in EstIds : ReturnAssign(id) /\ UNCHANGED lockVars
    \/ \E id \in EstIds : CallIdle(id) /\ UNCHANGED lockVars
    \/ \E id \in EstIds : AssignStartCost(id) /\ UNCHANGED lockVars
    \/ \E id \in EstIds : AssignStart(id) /\ UNCHANGED lockVars
    \/ \E id \in EstIds : AssignReturn(id) /\ UNCHANGED lockVars
    \/ \E id \in EstIds : IdleStart(id) /\ UNCHANGED lockVars
    \/ GetCurrentCost /\ UNCHANGED lockVars
    \/ GetCurrentRequestBNum /\ UNCHANGED lockVars
    \/ ~estPanic /\ Tick /\ UNCHANGED lockVars

SpecEst == Init /\ [][NextEst]_vars

\* The moving average of the claim: c1 = d1, ck = rctRate * c(k-1) +
\* (1 - rctRate) * dk, truncated to an integer at each step.
RECURSIVE Ewma(_)
Ewma(ds) ==
    IF Len(ds) = 1 THEN ds[1]
    ELSE (RctNum * Ewma(Front(ds)) + (RctDen - RctNum) * Back(ds)) \div RctDen

\* C14: after IdleStart has processed the durations d1..dN in this order,
\* requestCostTime is their moving average with weight rctRate on history,
\* whatever the durations are, 0 included.
C14_Ewma == durations # <<>> => requestCostTime = Ewma(durations)

----
\* An instance is pushed to the idle pool in this step.
Pushed == Len(idleInstance') > Len(idleInstance)

\* C15: a notifyRequest hands its instance to one waiter at most, and then
\* does not push it to the idle pool; the waiter served was queued, leaves the
\* queue in the same step and had been sent nothing before, so that a channel
\* is sent one instance at most; the channel of a queued waiter is empty, so
\* that the send under s.longPollingMu does not block.
C15_HandOff ==
    [][/\ \A w \in AllReqs :
            Delivered(w) =>
                /\ chan[w] = <<>> /\ reply[w] = None
                /\ Len(chan'[w]) = 1
                /\ Occurrences(longPollingList, w) = 1
                /\ w \notin Range(longPollingList')
                /\ \A q \in AllReqs \ {w} : chan'[q] = chan[q]
                /\ notifying' = Leave(notifying, chan'[w][1], "lock")
                /\ ~Pushed
       /\ Pushed => chan' = chan
       /\ \A w \in Range(longPollingList') : Len(chan'[w]) < ChanCap]_vars

\* An instance was handed to a waiter that has not received it yet, its
\* notifyRequest has returned without pushing it to the idle pool, and
\* another waiter is queued.
C15_Witness ==
    \E w \in AllReqs, i \in Inst :
        /\ chan[w] = <<i>>
        /\ \A p \in NPc : notifying[<<i, p>>] = 0
        /\ i \notin Range(idleInstance)
        /\ longPollingList # <<>>

----
\* C16: the idle pool is ordered by age: LastIdleTime does not increase from
\* the front to the back.
C16_PoolOrderedByAge ==
    \A k \in 1..(Len(idleInstance) - 1) :
        LastIdleTime[idleInstance[k]] >= LastIdleTime[idleInstance[k + 1]]

----
\* The inner loop of gcLoop stops in this step.
GcPassStops == gcpc = "scan" /\ gcpc' = "sleep"

\* C17: when a pass of gcLoop stops, no instance left in the idle pool has
\* been idle for more than IdleDurationBeforeGC.
C17_GcComplete ==
    [][GcPassStops =>
          \A i \in Range(idleInstance') :
              ~(now' - LastIdleTime'[i] > IdleDurationBeforeGC)]_vars

----
(***************************************************************************)
(* The locks.  In the specification below a critical section is two steps: *)
(* the Lock, then the body with the Unlock; the Idle call is told step by  *)
(* step, its deferred functions run from a stack.                          *)
(***************************************************************************)
AssignTask(r) == <<"Assign", r, "">>
IdleTask(r) == <<"Idle", r, "">>
NotifyTask(i, p) == <<"notifyRequest", i, p>>
CreateTask(r) == <<"createInstance", r, "">>
GcTask == <<"gcLoop", 0, "">>
StatsTask == <<"Stats", 0, "">>

\* s.mu.Lock() by task t: the scaler state is left alone.
LockMu(t) ==
    /\ mu = NoTask
    /\ mu' = t
    /\ UNCHANGED <<scalerState, now, estVars, longPollingMu, ipc>>

\* s.longPollingMu.Lock() by task t.
LockLongPollingMu(t) ==
    /\ longPollingMu = NoTask
    /\ longPollingMu' = t
    /\ UNCHANGED <<scalerState, now, estVars, mu, ipc>>

\* Assign, line 119.
AssignLockMu(r) ==
    /\ apc[r] = "new"
    /\ \A q \in AllReqs : q < r => apc[q] # "new"
    /\ LockMu(AssignTask(r))

\* Assign, lines 120-138: the lookup, and the Unlock of line 126 or 138.
AssignLookupUnlock(r) ==
    /\ mu = AssignTask(r)
    /\ AssignLookup(r)
    /\ mu' = NoTask
    /\ UNCHANGED <<longPollingMu, ipc>>

\* Assign, line 142.
AssignLockLongPollingMu(r) ==
    /\ apc[r] = "miss"
    /\ LockLongPollingMu(AssignTask(r))

\* Assign, lines 143-152.
AssignEnqueueUnlock(r) ==
    /\ longPollingMu = AssignTask(r)
    /\ AssignEnqueue(r)
    /\ longPollingMu' = NoTask
    /\ UNCHANGED <<mu, ipc>>

\* notifyRequest, line 85.
NotifyLockLongPollingMu(i) ==
    /\ notifying[<<i, "lock">>] > 0
    /\ LockLongPollingMu(NotifyTask(i, "lock"))

\* notifyRequest, lines 86-100: the hand-off or not, and the Unlock of line
\* 96 or 100.
NotifyLockUnlock(i) ==
    /\ longPollingMu = NotifyTask(i, "lock")
    /\ NotifyLock(i)
    /\ longPollingMu' = NoTask
    /\ UNCHANGED <<mu, ipc>>

\* notifyRequest, line 103.
NotifyLockMu(i) ==
    /\ notifying[<<i, "push">>] > 0
    /\ LockMu(NotifyTask(i, "push"))

\* notifyRequest, lines 104-105.
NotifyPushUnlock(i) ==
    /\ mu = NotifyTask(i, "push")
    /\ NotifyPush(i)
    /\ mu' = NoTask
    /\ UNCHANGED <<longPollingMu, ipc>>

\* createInstance, line 310.
CreateLockMu(r) ==
    /\ cpc[r] = "reg"
    /\ LockMu(CreateTask(r))

\* createInstance, lines 311-318.
CreateRegisterUnlock(r) ==
    /\ mu = CreateTask(r)
    /\ CreateRegister(r)
    /\ mu' = NoTask
    /\ UNCHANGED <<longPollingMu, ipc>>

\* gcLoop, line 242.
GcLockMu ==
    /\ gcpc = "scan"
    /\ LockMu(GcTask)

\* gcLoop, lines 243-260: the eviction, the Unlock of line 251, and then the
\* goroutine that calls DestroySLot.
GcEvictUnlock ==
    /\ mu = GcTask
    /\ GcEvict
    /\ mu' = NoTask
    /\ UNCHANGED <<longPollingMu, ipc>>

\* gcLoop, lines 243-264: nothing to evict, the Unlock of line 263, break.
GcBreakUnlock ==
    /\ mu = GcTask
    /\ GcBreak
    /\ mu' = NoTask
    /\ UNCHANGED <<longPollingMu, ipc>>

\* Stats, line 270.
StatsLockMu == LockMu(StatsTask)

\* Stats, lines 271-275: the counts are read and the deferred Unlock runs.
StatsUnlock ==
    /\ mu = StatsTask
    /\ mu' = NoTask
    /\ UNCHANGED <<scalerState, now, estVars, longPollingMu, ipc>>


\* The Idle calls that hold or await s.mu and have not reached the lookup.
IdleEntered == Cardinality({r \in AllReqs : ipc[r].pc = "locked"})

\* Idle, lines 173-202, for the Assignment returned to request r: the defer
\* statements of lines 186 and 195, the Lock of line 201 and the defer of line
\* 202.  The Idle calls for one Assignment are made one after the other.
IdleLockMu(r, needDestroy) ==
    /\ apc[r] = "assigned"
    /\ ipc[r].pc = "none"
    /\ IdleCalls + IdleEntered < MaxIdleCalls
    /\ mu = NoTask
    /\ mu' = IdleTask(r)
    /\ ipc' = [ipc EXCEPT ![r] =
                 [pc |-> "locked", needDestroy |-> needDestroy,
                  slotId |-> NoSlot,
                  defers |-> <<"log", "deleteSlot", "Unlock">>]]
    /\ UNCHANGED <<scalerState, now, estVars, longPollingMu>>

\* Idle, lines 203-226: the lookup and the return statement reached.
IdleBody(r) ==
    /\ ipc[r].pc = "locked"
    /\ mu = IdleTask(r)
    /\ LET i == reply[r]
           needDestroy == ipc[r].needDestroy IN
       /\ notifying' = IF IdleNotifies(i, needDestroy)
                       THEN Spawn(notifying, i)
                       ELSE notifying
       /\ idleLog' = [idleLog EXCEPT ![r] =
              Append(@, [needDestroy |-> needDestroy, status |-> IdleStatus(i)])]
       /\ ipc' = [ipc EXCEPT ![r].pc = "return", ![r].slotId = IdleSlot(i)]
    /\ UNCHANGED <<instances, Busy, LastIdleTime, idleInstance, longPollingList,
                   chan, creatingNum, apc, reply, cpc, ticket, destroyed, gcpc,
                   now, badIdle, nilStart, estVars, mu, longPollingMu>>

\* A faulty Deferred: the deferred functions run in the order of their defer
\* statements.
Deferred_First(defers) == 1

\* The deferred function that runs next: the one deferred last.
Deferred(defers) == Len(defers)

\* Idle returns: one deferred function runs, the log of lines 186-188, the
\* deleteSlot of lines 195-199 (a DestroySLot call if needDestroy), or the
\* Unlock of line 202.
IdleDefer(r) ==
    /\ ipc[r].pc = "return"
    /\ LET k == Deferred(ipc[r].defers)
           f == ipc[r].defers[k]
           rest == ListRemove(ipc[r].defers, k) IN
       /\ mu' = IF f = "Unlock" THEN NoTask ELSE mu
       /\ destroyed' = IF f = "deleteSlot" /\ ipc[r].needDestroy
                       THEN [destroyed EXCEPT
                               ![<<ipc[r].slotId, "bad instance">>] = @ + 1]
                       ELSE destroyed
       /\ ipc' = [ipc EXCEPT ![r].defers = rest,
                             ![r].pc = IF rest = <<>> THEN "none" ELSE "return"]
    /\ UNCHANGED <<instances, Busy, LastIdleTime, idleInstance, longPollingList,
                   chan, creatingNum, apc, reply, cpc, notifying, ticket,
                   idleLog, gcpc, now, badIdle, nilStart, estVars,
                   longPollingMu>>

\* The scaler of Spec with the Lock calls as steps of their own, and Stats
\* called at any time.
NextLocks ==
    \/ \E r \in Reqs : AssignLockMu(r)
    \/ \E r \in Reqs : AssignLookupUnlock(r)
    \/ \E r \in Reqs : AssignLockLongPollingMu(r)
    \/ \E r \in Reqs : AssignEnqueueUnlock(r)
    \/ \E r \in Reqs : AssignReceive(r) /\ UNCHANGED lockVars
    \/ \E r \in Reqs : AssignCancel(r) /\ UNCHANGED lockVars
    \/ \E r \in Reqs, needDestroy \in BOOLEAN : IdleLockMu(r, needDestroy)
    \/ \E r \in Reqs : IdleBody(r)
    \/ \E r \in Reqs : IdleDefer(r)
    \/ \E i \in Inst : NotifyLockLongPollingMu(i)
    \/ \E i \in Inst : NotifyLockUnlock(i)
    \/ \E i \in Inst : NotifySet(i) /\ UNCHANGED lockVars
    \/ \E i \in Inst : NotifyLockMu(i)
    \/ \E i \in Inst : NotifyPushUnlock(i)
    \/ \E r \in Reqs : CreateBegin(r) /\ UNCHANGED lockVars
    \/ \E r \in Reqs : CreateSlotOk(r) /\ UNCHANGED lockVars
    \/ \E r \in Reqs : CreateSlotFail(r) /\ UNCHANGED lockVars
    \/ \E r \in Reqs : InitOk(r) /\ UNCHANGED lockVars
    \/ \E r \in Reqs : InitFail(r) /\ UNCHANGED lockVars
    \/ \E r \in Reqs : CreateLockMu(r)
    \/ \E r \in Reqs : CreateRegisterUnlock(r)
    \/ \E r \in Reqs : CreateExit(r) /\ UNCHANGED lockVars
    \/ GcTick /\ UNCHANGED lockVars
    \/ GcLockMu
    \/ GcEvictUnlock
    \/ GcBreakUnlock
    \/ StatsLockMu
    \/ StatsUnlock
    \/ Tick /\ UNCHANGED lockVars

SpecLocks == Init /\ [][NextLocks]_vars

----
\* Task t holds one of the two locks.
Holds(t) == mu = t \/ longPollingMu = t

\* A step of the task that holds s.mu.
MuHolderStep ==
    \/ \E r \in Reqs : AssignLookupUnlock(r)
    \/ \E r \in Reqs : IdleBody(r)
    \/ \E r \in Reqs : mu = IdleTask(r) /\ IdleDefer(r)
    \/ \E i \in Inst : NotifyPushUnlock(i)
    \/ \E r \in Reqs : CreateRegisterUnlock(r)
    \/ GcEvictUnlock
    \/ GcBreakUnlock
    \/ StatsUnlock

\* A step of the task that holds s.longPollingMu.
LongPollingMuHolderStep ==
    \/ \E r \in Reqs : AssignEnqueueUnlock(r)
    \/ \E i \in Inst : NotifyLockUnlock(i)

\* No task holds both locks; a task waiting in the select of Assign, for the
\* ticker of gcLoop or in a CreateSlot or Init call holds no lock; the send of
\* notifyRequest under s.longPollingMu finds room in the channel; and the
\* holder of a lock is able to take its next step, so that no task waits for a
\* lock that is never released.
LockState ==
    /\ mu # NoTask => mu # longPollingMu
    /\ \A r \in Reqs : apc[r] = "wait" => ~Holds(AssignTask(r))
    /\ gcpc = "sleep" => ~Holds(GcTask)
    /\ \A r \in Reqs : cpc[r] \in {"slot", "init"} => ~Holds(CreateTask(r))
    /\ \A i \in Inst :
          (longPollingMu = NotifyTask(i, "lock") /\ longPollingList # <<>>) =>
              Len(chan[longPollingList[NotifyTarget(longPollingList)]]) < ChanCap
    /\ mu # NoTask => ENABLED MuHolderStep
    /\ longPollingMu # NoTask => ENABLED LongPollingMuHolderStep

\* Idle calls DestroySLot for the Assignment of request r in this step.
IdleDestroys(r) ==
    /\ ipc'[r] # ipc[r]
    /\ \E d \in Slots : destroyed'[<<d, "bad instance">>]
                          > destroyed[<<d, "bad instance">>]

\* s.longPollingMu is not taken by a task that holds s.mu, and a step that is
\* a platform call (the return of CreateSlot or Init, DestroySLot called by
\* Idle or by the goroutine gcLoop starts) is made by a task that holds no lock.
LockStep ==
    /\ (longPollingMu = NoTask /\ longPollingMu' # NoTask) =>
           (mu # longPollingMu' /\ mu' # longPollingMu')
    /\ \A r \in Reqs :
          (cpc[r] \in {"slot", "init"} /\ cpc'[r] # cpc[r]) =>
              ~Holds(CreateTask(r))
    /\ \A r \in Reqs : IdleDestroys(r) => ~Holds(IdleTask(r))
    /\ \A i \in Inst : GcEvicted(i) => (mu' # GcTask /\ longPollingMu' # GcTask)

\* C18: the locking discipline: s.longPollingMu is never acquired by a holder
\* of s.mu, no platform call is made and no task waits at a channel, a ticker
\* or a platform call while it holds a lock, and no lock is held for ever.
C18_LockDiscipline == []LockState /\ [][LockStep]_vars

\* gcLoop holds s.mu while an Idle call that asked for the destruction of a
\* registered instance has released it and has its DestroySLot call still to
\* make, and a notifyRequest holds s.longPollingMu with a waiter queued.
C18_Witness ==
    /\ mu = GcTask
    /\ \E r \in Reqs : /\ ipc[r].pc = "return"
                       /\ ipc[r].needDestroy
                       /\ ipc[r].slotId # NoSlot
                       /\ ipc[r].defers = <<"log", "deleteSlot">>
    /\ \E i \in Inst : longPollingMu = NotifyTask(i, "lock")
    /\ longPollingList # <<>>

----
\* AssignStart for request id runs its locked part in this step.
AssignStarted(id) == rpc[id].start = "cost" /\ rpc'[id].start # "cost"

\* getCurrentRequestBNum runs its locked part in this step.
GetCurrentReturned == getter.pc = "cost" /\ getter'.pc = "none"

\* No entry of l before the first one equal to timeStamp is older than cost.
PrunedBefore(l, timeStamp, cost) ==
    \A k \in 1..Len(l) :
        (\A j \in 1..k : l[j] # timeStamp) => ~(Since(l[k]) > cost)

\* C19: AssignStart(t) returns normally, with t in r.requestInstance and no
\* entry before t older than requestCostTime; getCurrentRequestBNum leaves no
\* entry older than requestCostTime and returns the length of the list.
C19_Pruning ==
    [][/\ \A id \in EstIds :
            AssignStarted(id) =>
                /\ ~estPanic'
                /\ rpc[id].timeStamp \in Range(requestInstance')
                /\ PrunedBefore(requestInstance', rpc[id].timeStamp,
                                rpc[id].requestCostTime)
       /\ GetCurrentReturned =>
            /\ \A k \in 1..Len(requestInstance') :
                  ~(Since(requestInstance'[k]) > getter.requestCostTime)
            /\ getter'.requestNum = Len(requestInstance')]_vars

----
\* IdleStart for request id runs in this step.
IdleStarted(id) == rpc[id].idle = "ready" /\ rpc'[id].idle = "done"

\* C20: when IdleStart(id) reads r.requestDuration[id], AssignReturn(id) has
\* stored the time at which the Assign of id returned: the duration is not
\* measured from a missing entry.
C20_ReturnBeforeIdleStart ==
    [][\A id \in EstIds :
          IdleStarted(id) =>
              /\ rpc[id].ret = "done"
              /\ requestDuration[id] # NoEntry
              /\ Back(durations') # MaxDuration]_vars

====
